---- MODULE Spec2Model ----
(***************************************************************************)
(* GithubFlowManager (blueocean-dashboard, creation/github): the wizard    *)
(* that finds a credential, lists organizations, paginates repositories,   *)
(* saves an organization folder and then waits for an SSE event or a       *)
(* timeout.  JavaScript is single threaded: every action below is one      *)
(* handler or one continuation run to completion.                          *)
(***************************************************************************)
EXTENDS Integers, Sequences, FiniteSets, TLC

VARIABLES
    status,               \* @observable status
    organizations,        \* @observable organizations
    repositories,         \* @observable repositories
    selectedOrganization, \* @observable selectedOrganization (by name)
    selectedRepository,   \* @observable selectedRepository (by name)
    savedOrgFolder,       \* @observable savedOrgFolder (by name)
    _repositoryCache,     \* organization name -> repository list
    _discoverSelection,
    _credentialId,
    _sseSubscribeId,
    _sseTimeoutId,
    steps,                \* FlowManager step stack
    pendingSteps,         \* FlowManager breadcrumb
    credCalls,            \* findExistingCredential calls in flight
    tokenCalls,           \* createAccessToken calls in flight
    tokensUsed,           \* createAccessToken calls made so far
    orgCalls,             \* listOrganizations calls in flight
    repoCalls,            \* listRepositories calls in flight
    chains,               \* one record per _loadAllRepositories invocation
    saveCalls,            \* createOrgFolder / updateOrgFolder calls in flight
    nSaves,               \* _saveOrgFolder invocations so far
    handlers,             \* sseService: ids of the registered handlers
    timers,               \* window timers set and neither fired nor cleared
    nextHandlerId,        \* sseService: next id registerHandler returns
    nextTimerId,          \* next id setTimeout returns
    unhandled,            \* calls whose rejection no handler received
    last                  \* the handler that ran last, and what it was given

vars == <<status, organizations, repositories, selectedOrganization,
          selectedRepository, savedOrgFolder, _repositoryCache,
          _discoverSelection, _credentialId, _sseSubscribeId, _sseTimeoutId,
          steps, pendingSteps, credCalls, tokenCalls, tokensUsed, orgCalls,
          repoCalls, chains, saveCalls, nSaves, handlers, timers,
          nextHandlerId, nextTimerId, unhandled, last>>

flowVars == <<status, organizations, repositories, selectedOrganization,
              selectedRepository, savedOrgFolder, _repositoryCache,
              _discoverSelection, _credentialId, _sseSubscribeId,
              _sseTimeoutId, steps, pendingSteps>>

envVars == <<credCalls, tokenCalls, tokensUsed, orgCalls, repoCalls, chains,
             saveCalls, nSaves, handlers, timers, nextHandlerId, nextTimerId,
             unhandled>>

----------------------------------------------------------------------------
(* Bounds of the model *)

MaxSteps == 4        \* depth of the step stack at which no step is pushed
MaxLoads == 2        \* _loadAllRepositories invocations
MaxPages == 2        \* pages one load fetches before the server ends it
MaxSaves == 2        \* _saveOrgFolder invocations
MaxTokens == 1       \* createAccessToken invocations

----------------------------------------------------------------------------
(* Program constants *)

FIRST_PAGE == 1
PAGE_SIZE == 100
SSE_TIMEOUT_DELAY == 30000

\* null of an id or of a page marker; a missing (undefined) page marker
NULL == 0
UNDEFINED == -1

\* JavaScript truthiness of an id: null, undefined and 0 are falsy
Truthy(x) == x # NULL /\ x # UNDEFINED

STATUS == [
    PENDING_LOADING_REPOSITORIES |-> "pending_loading_repositories",
    STEP_CHOOSE_DISCOVER         |-> "step_choose_discover",
    STEP_ALREADY_DISCOVER        |-> "step_already_discover",
    STEP_CONFIRM_DISCOVER        |-> "step_confirm_discover",
    STEP_CHOOSE_REPOSITORY       |-> "step_choose_repository",
    PENDING_CREATION_SAVING      |-> "pending_creation_saving",
    STEP_COMPLETE_SAVING_ERROR   |-> "step_complete_saving_error",
    STEP_COMPLETE_EVENT_ERROR    |-> "step_complete_event_error",
    STEP_COMPLETE_EVENT_TIMEOUT  |-> "step_complete_event_timeout",
    STEP_COMPLETE_SUCCESS        |-> "step_complete_success" ]

----------------------------------------------------------------------------
(* The data the collaborators hand to the flow manager *)

\* Organization: { name, autoDiscover, jenkinsOrganizationPipeline }
Organizations == {
    [name |-> "acme", autoDiscover |-> TRUE,  jenkinsOrganizationPipeline |-> TRUE],
    [name |-> "beta", autoDiscover |-> FALSE, jenkinsOrganizationPipeline |-> FALSE] }

OrgNames == {o.name : o \in Organizations}

Org(n) == CHOOSE o \in Organizations : o.name = n

\* Repository: { name, pipelineCreated }
RepoA == [name |-> "A", pipelineCreated |-> TRUE]
RepoB == [name |-> "B", pipelineCreated |-> TRUE]
RepoX == [name |-> "X", pipelineCreated |-> FALSE]

\* the items of one page of listRepositories
PageItems == { <<RepoA>>, <<RepoB, RepoX>> }

\* the next-page markers a response may carry after asking for page p
NextPages(p) == {NULL, UNDEFINED, IF p = UNDEFINED THEN FIRST_PAGE + 1 ELSE p + 1}

\* _links.self.href of the org folder the server returns, as path segments
Href(folder) ==
    IF folder = "acme" THEN <<"pipelines", "acme">>
    ELSE IF folder = "beta" THEN <<"pipelines", "beta">>
    ELSE <<>>

\* the errors createAccessToken rejects with
TokenErrors == { [responseBody |-> "bad credentials"],
                 [responseBody |-> "missing scopes"] }

\* blueocean_job_rest_url of the events the bus delivers
EventUrls == { <<"pipelines", "acme">>,
               <<"pipelines", "acme", "repo">>,
               <<"pipelines", "beta">>,
               <<"classes", "pipelines", "acme">> }

QUEUE_TASK_COMPLETE == "job_run_queue_task_complete"

SseEvents == [ blueocean_job_rest_url : EventUrls,
               jenkins_event : {QUEUE_TASK_COMPLETE, "job_crud_created"},
               job_multibranch_indexing_result :
                   {"SUCCESS", "FAILURE", "UNSTABLE", "undefined"} ]

NoEvent == [ blueocean_job_rest_url |-> <<>>, jenkins_event |-> "",
             job_multibranch_indexing_result |-> "" ]

----------------------------------------------------------------------------
(* String.prototype.indexOf on sequences: the first position (from 0) at   *)
(* which needle occurs in hay, -1 when it does not occur.                  *)

OccursAt(hay, needle, i) ==
    /\ i + Len(needle) <= Len(hay)
    /\ \A k \in 1..Len(needle) : hay[i + k] = needle[k]

IndexOf(hay, needle) ==
    LET hits == {i \in 0..Len(hay) : OccursAt(hay, needle, i)}
    IN  IF hits = {} THEN -1 ELSE CHOOSE i \in hits : \A j \in hits : i <= j

----------------------------------------------------------------------------
(* Bookkeeping: which handler ran last *)

\* what a handler that returns nothing returns
NoReturn == [ value |-> FALSE, success |-> FALSE, detail |-> "" ]

Ran(op) == [ op |-> op, id |-> 0, event |-> NoEvent, nextPage |-> NULL,
             removed |-> <<>>, cleared |-> <<>>, threw |-> FALSE,
             given |-> "", returned |-> NoReturn ]

NoChain == [ org |-> "", fetches |-> 0, pages |-> 0, got |-> <<>>, done |-> FALSE ]

UsedChains == {c \in DOMAIN chains : chains[c].fetches > 0}

----------------------------------------------------------------------------
(* FlowManager (flow2/FlowManager): the step stack *)

pushStep(stack, step) == Append(stack, step)

replaceCurrentStep(stack, step) == [stack EXCEPT ![Len(stack)] = step]

----------------------------------------------------------------------------
Init ==
    /\ status = "null"
    /\ organizations = {}
    /\ repositories = <<>>
    /\ selectedOrganization = "null"
    /\ selectedRepository = "null"
    /\ savedOrgFolder = "null"
    /\ _repositoryCache = [n \in {} |-> <<>>]
    /\ _discoverSelection = "null"
    /\ _credentialId = "null"
    /\ _sseSubscribeId = NULL
    /\ _sseTimeoutId = NULL
    /\ steps = <<"GithubLoadingStep">>      \* getInitialStep
    /\ pendingSteps = <<>>
    /\ credCalls = 1                        \* onInitialized
    /\ tokenCalls = 0
    /\ tokensUsed = 0
    /\ orgCalls = 0
    /\ repoCalls = {}
    /\ chains = [c \in 1..MaxLoads |-> NoChain]
    /\ saveCalls = {}
    /\ nSaves = 0
    /\ handlers = {}
    /\ timers = {}
    /\ nextHandlerId = 1
    /\ nextTimerId = 1
    /\ unhandled = {}
    /\ last = Ran("constructor")

----------------------------------------------------------------------------
(* destroy, _cleanupListeners *)

\* _cleanupListeners that forgets the timer
CleanupSubscriptionOnly(sub, tmo, hs, ts) ==
    [ sub     |-> IF Truthy(sub) THEN NULL ELSE sub,
      tmo     |-> tmo,
      hs      |-> IF Truthy(sub) THEN hs \ {sub} ELSE hs,
      ts      |-> ts,
      removed |-> IF Truthy(sub) THEN <<sub>> ELSE <<>>,
      cleared |-> <<>> ]

\* _cleanupListeners without its two guards
CleanupUnguarded(sub, tmo, hs, ts) ==
    [ sub     |-> NULL,
      tmo     |-> NULL,
      hs      |-> hs \ {sub},
      ts      |-> ts \ {tmo},
      removed |-> <<sub>>,
      cleared |-> <<tmo>> ]

\* what _cleanupListeners makes of the two ids, of the bus's handlers hs and
\* of the timers ts, and the removeHandler and clearTimeout calls it makes
_cleanupListeners(sub, tmo, hs, ts) ==
    [ sub     |-> IF Truthy(sub) THEN NULL ELSE sub,
      tmo     |-> IF Truthy(tmo) THEN NULL ELSE tmo,
      hs      |-> IF Truthy(sub) THEN hs \ {sub} ELSE hs,
      ts      |-> IF Truthy(tmo) THEN ts \ {tmo} ELSE ts,
      removed |-> IF Truthy(sub) THEN <<sub>> ELSE <<>>,
      cleared |-> IF Truthy(tmo) THEN <<tmo>> ELSE <<>> ]

\* this._cleanupListeners() run by the handler `ran` with timers ts left
Cleanup(ran, ts) ==
    LET c == _cleanupListeners(_sseSubscribeId, _sseTimeoutId, handlers, ts)
    IN  /\ _sseSubscribeId' = c.sub
        /\ _sseTimeoutId' = c.tmo
        /\ handlers' = c.hs
        /\ timers' = c.ts
        /\ last' = [ran EXCEPT !.removed = c.removed, !.cleared = c.cleared]

destroy ==
    /\ Cleanup(Ran("destroy"), timers)
    /\ UNCHANGED <<status, organizations, repositories, selectedOrganization,
                   selectedRepository, savedOrgFolder, _repositoryCache,
                   _discoverSelection, _credentialId, steps, pendingSteps,
                   credCalls, tokenCalls, tokensUsed, orgCalls, repoCalls,
                   chains, saveCalls, nSaves, nextHandlerId, nextTimerId,
                   unhandled>>

----------------------------------------------------------------------------
(* Credentials and organizations *)

\* listOrganizations(): one more call in flight
listOrganizations(n) == n + 1

\* findExistingCredential resolves with a credential or with none
_afterInitialStep(credentialId) ==
    /\ credCalls > 0
    /\ credCalls' = credCalls - 1
    /\ IF credentialId # "null"
       THEN /\ _credentialId' = credentialId
            /\ orgCalls' = listOrganizations(orgCalls)
            /\ steps' = steps
       ELSE /\ steps' = replaceCurrentStep(steps, "GithubCredentialsStep")
            /\ UNCHANGED <<_credentialId, orgCalls>>
    /\ last' = Ran("_afterInitialStep")
    /\ UNCHANGED <<status, organizations, repositories, selectedOrganization,
                   selectedRepository, savedOrgFolder, _repositoryCache,
                   _discoverSelection, _sseSubscribeId, _sseTimeoutId,
                   pendingSteps, tokenCalls, tokensUsed, repoCalls, chains,
                   saveCalls, nSaves, handlers, timers, nextHandlerId,
                   nextTimerId, unhandled>>

\* findExistingCredential rejects: the chain has no rejection handler
findExistingCredentialRejected ==
    /\ credCalls > 0
    /\ credCalls' = credCalls - 1
    /\ unhandled' = unhandled \cup {"findExistingCredential"}
    /\ last' = Ran("findExistingCredentialRejected")
    /\ UNCHANGED <<flowVars, tokenCalls, tokensUsed, orgCalls, repoCalls,
                   chains, saveCalls, nSaves, handlers, timers,
                   nextHandlerId, nextTimerId>>

createAccessToken ==
    /\ tokensUsed < MaxTokens
    /\ tokensUsed' = tokensUsed + 1
    /\ tokenCalls' = tokenCalls + 1
    /\ last' = Ran("createAccessToken")
    /\ UNCHANGED <<flowVars, credCalls, orgCalls, repoCalls, chains,
                   saveCalls, nSaves, handlers, timers, nextHandlerId,
                   nextTimerId, unhandled>>

_createTokenSuccess(credentialId) ==
    /\ tokenCalls > 0
    /\ Len(steps) < MaxSteps
    /\ tokenCalls' = tokenCalls - 1
    /\ _credentialId' = credentialId
    /\ steps' = pushStep(steps, "GithubLoadingStep")
    /\ orgCalls' = listOrganizations(orgCalls)
    /\ last' = [Ran("_createTokenSuccess") EXCEPT
           !.given = credentialId,
           !.returned = [value |-> TRUE, success |-> TRUE, detail |-> ""]]
    /\ UNCHANGED <<status, organizations, repositories, selectedOrganization,
                   selectedRepository, savedOrgFolder, _repositoryCache,
                   _discoverSelection, _sseSubscribeId, _sseTimeoutId,
                   pendingSteps, credCalls, tokensUsed, repoCalls, chains,
                   saveCalls, nSaves, handlers, timers, nextHandlerId,
                   nextTimerId, unhandled>>

\* _createTokenFailure that goes on as the success handler does
_createTokenFailureAdvances(error) ==
    /\ tokenCalls > 0
    /\ Len(steps) < MaxSteps
    /\ tokenCalls' = tokenCalls - 1
    /\ steps' = Append(steps, "GithubLoadingStep")
    /\ orgCalls' = orgCalls + 1
    /\ last' = [Ran("_createTokenFailure") EXCEPT
           !.given = error.responseBody,
           !.returned = [value |-> TRUE, success |-> FALSE,
                         detail |-> error.responseBody]]
    /\ UNCHANGED <<status, organizations, repositories, selectedOrganization,
                   selectedRepository, savedOrgFolder, _repositoryCache,
                   _discoverSelection, _credentialId, _sseSubscribeId,
                   _sseTimeoutId, pendingSteps, credCalls, tokensUsed,
                   repoCalls, chains, saveCalls, nSaves, handlers, timers,
                   nextHandlerId, nextTimerId, unhandled>>

_createTokenFailure(error) ==
    /\ tokenCalls > 0
    /\ tokenCalls' = tokenCalls - 1
    /\ last' = [Ran("_createTokenFailure") EXCEPT
           !.given = error.responseBody,
           !.returned = [value |-> TRUE, success |-> FALSE,
                         detail |-> error.responseBody]]
    /\ UNCHANGED <<flowVars, credCalls, tokensUsed, orgCalls, repoCalls,
                   chains, saveCalls, nSaves, handlers, timers,
                   nextHandlerId, nextTimerId, unhandled>>

_updateOrganizations(orgs) ==
    /\ orgCalls > 0
    /\ orgCalls' = orgCalls - 1
    /\ organizations' = orgs
    /\ steps' = replaceCurrentStep(steps, "GithubOrgListStep")
    /\ pendingSteps' = <<"Complete">>
    /\ last' = Ran("_updateOrganizations")
    /\ UNCHANGED <<status, repositories, selectedOrganization,
                   selectedRepository, savedOrgFolder, _repositoryCache,
                   _discoverSelection, _credentialId, _sseSubscribeId,
                   _sseTimeoutId, credCalls, tokenCalls, tokensUsed,
                   repoCalls, chains, saveCalls, nSaves, handlers, timers,
                   nextHandlerId, nextTimerId, unhandled>>

\* listOrganizations rejects: the chain has no rejection handler
listOrganizationsRejected ==
    /\ orgCalls > 0
    /\ orgCalls' = orgCalls - 1
    /\ unhandled' = unhandled \cup {"listOrganizations"}
    /\ last' = Ran("listOrganizationsRejected")
    /\ UNCHANGED <<flowVars, credCalls, tokenCalls, tokensUsed, repoCalls,
                   chains, saveCalls, nSaves, handlers, timers,
                   nextHandlerId, nextTimerId>>

\* selectOrganization that does not record the organization
selectOrganizationKeepsSelection(organization) ==
    /\ organization \in organizations
    /\ Len(steps) < MaxSteps
    /\ status' = STATUS.STEP_CHOOSE_DISCOVER
    /\ steps' = Append(steps, "GithubChooseDiscoverStep")
    /\ last' = [Ran("selectOrganization") EXCEPT !.given = organization.name]
    /\ UNCHANGED <<organizations, repositories, selectedOrganization,
                   selectedRepository, savedOrgFolder, _repositoryCache,
                   _discoverSelection, _credentialId, _sseSubscribeId,
                   _sseTimeoutId, pendingSteps, envVars>>

selectOrganization(organization) ==
    /\ organization \in organizations
    /\ Len(steps) < MaxSteps
    /\ selectedOrganization' = organization.name
    /\ status' = STATUS.STEP_CHOOSE_DISCOVER
    /\ steps' = pushStep(steps, "GithubChooseDiscoverStep")
    /\ last' = [Ran("selectOrganization") EXCEPT !.given = organization.name]
    /\ UNCHANGED <<organizations, repositories, selectedRepository,
                   savedOrgFolder, _repositoryCache, _discoverSelection,
                   _credentialId, _sseSubscribeId, _sseTimeoutId,
                   pendingSteps, envVars>>

----------------------------------------------------------------------------
(* Discovery selection and repository pagination *)

\* selectableRepositories
selectableRepositories ==
    SelectSeq(repositories, LAMBDA repo : ~repo.pipelineCreated)

\* selectDiscover that skips the load of an organization the cache holds
LoadsUncachedRepositories(organization, discover) ==
    /\ ~(organization.autoDiscover /\ discover)
    /\ organization.name \notin DOMAIN _repositoryCache

\* selectDiscover that looks at the organization only
LoadsUnlessAutoDiscover(organization, discover) == ~organization.autoDiscover

\* selectDiscover: whether the repositories are loaded (the else branch)
LoadsRepositories(organization, discover) ==
    ~(organization.autoDiscover /\ discover)

\* this.repositories.push(...items)
PushItems(repos, items) == repos \o items

\* this._repositoryCache[organizationName] = this.repositories.slice()
PutCache(cache, organizationName, repos) ==
    [n \in DOMAIN cache \cup {organizationName} |->
        IF n = organizationName THEN repos ELSE cache[n]]

\* if (nextPage !== undefined)
AnotherPageUnlessUndefined(nextPage) == nextPage # UNDEFINED

\* if (nextPage)
AnotherPageIfTruthy(nextPage) == Truthy(nextPage)

\* if (nextPage !== null)
AnotherPage(nextPage) == nextPage # NULL

\* the listRepositories calls _updateRepositories makes for chain c
NextCalls(c, organizationName, nextPage) ==
    IF AnotherPage(nextPage)
    THEN {[chain |-> c, org |-> organizationName, page |-> nextPage]}
    ELSE {}

\* AfterLastPage with the two branches exchanged
AfterLastPageChooseOneConfirms(discoverSelection) ==
    IF discoverSelection = "true"
    THEN [step |-> "GithubRepositoryStep", status |-> STATUS.STEP_CHOOSE_REPOSITORY]
    ELSE [step |-> "GithubConfirmDiscoverStep", status |-> STATUS.STEP_CONFIRM_DISCOVER]

\* the step and the status after the last page
AfterLastPage(discoverSelection) ==
    IF discoverSelection = "true"
    THEN [step |-> "GithubConfirmDiscoverStep", status |-> STATUS.STEP_CONFIRM_DISCOVER]
    ELSE [step |-> "GithubRepositoryStep", status |-> STATUS.STEP_CHOOSE_REPOSITORY]

selectDiscover(discover) ==
    /\ selectedOrganization # "null"
    /\ Len(steps) < MaxSteps
    /\ _discoverSelection' = IF discover THEN "true" ELSE "false"
    /\ IF ~LoadsRepositories(Org(selectedOrganization), discover)
       THEN /\ status' = STATUS.STEP_ALREADY_DISCOVER
            /\ steps' = pushStep(steps, "GithubAlreadyDiscoverStep")
            /\ last' = Ran("selectDiscover")
            /\ UNCHANGED <<repositories, repoCalls, chains>>
       ELSE \* _loadAllRepositories(this.selectedOrganization)
            /\ Cardinality(UsedChains) < MaxLoads
            /\ LET c == Cardinality(UsedChains) + 1
               IN  /\ repositories' = <<>>
                   /\ repoCalls' = repoCalls \cup
                          {[chain |-> c, org |-> selectedOrganization,
                            page |-> FIRST_PAGE]}
                   /\ chains' = [chains EXCEPT ![c] =
                          [NoChain EXCEPT !.org = selectedOrganization,
                                          !.fetches = 1]]
                   /\ last' = [Ran("selectDiscover") EXCEPT !.id = c]
            /\ status' = STATUS.PENDING_LOADING_REPOSITORIES
            /\ steps' = pushStep(steps, "GithubLoadingStep")
    /\ UNCHANGED <<organizations, selectedOrganization, selectedRepository,
                   savedOrgFolder, _repositoryCache, _credentialId,
                   _sseSubscribeId, _sseTimeoutId, pendingSteps, credCalls,
                   tokenCalls, tokensUsed, orgCalls, saveCalls, nSaves,
                   handlers, timers, nextHandlerId, nextTimerId, unhandled>>

selectRepository(repo) ==
    /\ \E i \in 1..Len(selectableRepositories) : selectableRepositories[i] = repo
    /\ selectedRepository' = repo.name
    /\ last' = [Ran("selectRepository") EXCEPT !.given = repo.name]
    /\ UNCHANGED <<status, organizations, repositories, selectedOrganization,
                   savedOrgFolder, _repositoryCache, _discoverSelection,
                   _credentialId, _sseSubscribeId, _sseTimeoutId, steps,
                   pendingSteps, envVars>>

\* the continuation of the listRepositories call `call`, given one page
_updateRepositories(call, items, nextPage) ==
    /\ call \in repoCalls
    /\ nextPage \in NextPages(call.page)
    /\ nextPage # NULL => chains[call.chain].fetches < MaxPages
    /\ LET c     == call.chain
           more  == NextCalls(c, call.org, nextPage)
           after == AfterLastPage(_discoverSelection)
       IN  /\ repositories' = PushItems(repositories, items)
           /\ _repositoryCache' = PutCache(_repositoryCache, call.org, repositories')
           /\ repoCalls' = (repoCalls \ {call}) \cup more
           /\ chains' = [chains EXCEPT
                  ![c].pages = @ + 1,
                  ![c].got = @ \o items,
                  ![c].fetches = @ + Cardinality(more),
                  ![c].done = (more = {})]
           /\ IF more # {}
              THEN UNCHANGED <<steps, status>>
              ELSE /\ steps' = replaceCurrentStep(steps, after.step)
                   /\ status' = after.status
           /\ last' = [Ran("_updateRepositories") EXCEPT
                  !.id = c, !.nextPage = nextPage]
    /\ UNCHANGED <<organizations, selectedOrganization, selectedRepository,
                   savedOrgFolder, _discoverSelection, _credentialId,
                   _sseSubscribeId, _sseTimeoutId, pendingSteps, credCalls,
                   tokenCalls, tokensUsed, orgCalls, saveCalls, nSaves,
                   handlers, timers, nextHandlerId, nextTimerId, unhandled>>

\* a listRepositories call rejects: the chain has no rejection handler
listRepositoriesRejected(call) ==
    /\ call \in repoCalls
    /\ repoCalls' = repoCalls \ {call}
    /\ unhandled' = unhandled \cup {"listRepositories"}
    /\ last' = [Ran("listRepositoriesRejected") EXCEPT !.id = call.chain]
    /\ UNCHANGED <<flowVars, credCalls, tokenCalls, tokensUsed, orgCalls,
                   chains, saveCalls, nSaves, handlers, timers,
                   nextHandlerId, nextTimerId>>

----------------------------------------------------------------------------
(* Save *)

\* the names of a repository list, in its order
RECURSIVE Names(_)
Names(repos) ==
    IF repos = <<>> THEN <<>> ELSE <<Head(repos).name>> \o Names(Tail(repos))

\* _getFullRepoNameList with the selection put first
SelectedNameFirst(allRepos, selectedName) ==
    LET existingPipelines == SelectSeq(allRepos, LAMBDA repo : repo.pipelineCreated)
    IN  <<selectedName>> \o Names(existingPipelines)

_getFullRepoNameList(allRepos, selectedName) ==
    LET existingPipelines == SelectSeq(allRepos, LAMBDA repo : repo.pipelineCreated)
    IN  Append(Names(existingPipelines), selectedName)

\* shouldCreate without the negation
ShouldCreateWhenManaged(organization) == organization.jenkinsOrganizationPipeline

\* const shouldCreate = !this.selectedOrganization.jenkinsOrganizationPipeline
shouldCreate(organization) == ~organization.jenkinsOrganizationPipeline

_saveOrgFolder(ran, repoNames) ==
    /\ nSaves < MaxSaves
    /\ Len(steps) < MaxSteps
    /\ status' = STATUS.PENDING_CREATION_SAVING
    /\ steps' = pushStep(steps, "GithubCompleteStep")
    /\ pendingSteps' = <<>>
    /\ nSaves' = nSaves + 1
    /\ saveCalls' = saveCalls \cup
           {[id |-> nSaves + 1,
             api |-> IF shouldCreate(Org(selectedOrganization))
                     THEN "createOrgFolder" ELSE "updateOrgFolder",
             org |-> selectedOrganization,
             repoNames |-> repoNames]}
    /\ last' = [Ran(ran) EXCEPT !.id = nSaves + 1]
    /\ UNCHANGED <<organizations, repositories, selectedOrganization,
                   selectedRepository, savedOrgFolder, _repositoryCache,
                   _discoverSelection, _credentialId, _sseSubscribeId,
                   _sseTimeoutId, credCalls, tokenCalls, tokensUsed,
                   orgCalls, repoCalls, chains, handlers, timers,
                   nextHandlerId, nextTimerId, unhandled>>

saveAutoDiscover ==
    /\ selectedOrganization # "null"
    /\ _saveOrgFolder("saveAutoDiscover", <<>>)

\* _getFullRepoNameList throws a TypeError when the cache holds no entry for
\* the selected organization or when no repository is selected
saveSingleRepo ==
    /\ selectedOrganization # "null"
    /\ IF selectedOrganization \in DOMAIN _repositoryCache
          /\ selectedRepository # "null"
       THEN _saveOrgFolder("saveSingleRepo",
                _getFullRepoNameList(_repositoryCache[selectedOrganization],
                                     selectedRepository))
       ELSE /\ last' = [Ran("saveSingleRepo") EXCEPT !.threw = TRUE]
            /\ UNCHANGED <<flowVars, envVars>>

_saveOrgFolderSuccess(call) ==
    /\ call \in saveCalls
    /\ saveCalls' = saveCalls \ {call}
    /\ status' = STATUS.STEP_COMPLETE_SUCCESS
    /\ savedOrgFolder' = call.org
    /\ _sseSubscribeId' = nextHandlerId
    /\ handlers' = handlers \cup {nextHandlerId}
    /\ nextHandlerId' = nextHandlerId + 1
    /\ _sseTimeoutId' = nextTimerId
    /\ timers' = timers \cup {nextTimerId}
    /\ nextTimerId' = nextTimerId + 1
    /\ last' = [Ran("_saveOrgFolderSuccess") EXCEPT !.id = call.id]
    /\ UNCHANGED <<organizations, repositories, selectedOrganization,
                   selectedRepository, _repositoryCache, _discoverSelection,
                   _credentialId, steps, pendingSteps, credCalls, tokenCalls,
                   tokensUsed, orgCalls, repoCalls, chains, nSaves,
                   unhandled>>

_saveOrgFolderFailure(call) ==
    /\ call \in saveCalls
    /\ saveCalls' = saveCalls \ {call}
    /\ status' = STATUS.STEP_COMPLETE_SAVING_ERROR
    /\ last' = [Ran("_saveOrgFolderFailure") EXCEPT !.id = call.id]
    /\ UNCHANGED <<organizations, repositories, selectedOrganization,
                   selectedRepository, savedOrgFolder, _repositoryCache,
                   _discoverSelection, _credentialId, _sseSubscribeId,
                   _sseTimeoutId, steps, pendingSteps, credCalls, tokenCalls,
                   tokensUsed, orgCalls, repoCalls, chains, nSaves, handlers,
                   timers, nextHandlerId, nextTimerId, unhandled>>

----------------------------------------------------------------------------
(* Completion event and timeout *)

\* event.blueocean_job_rest_url.indexOf(this.savedOrgFolder._links.self.href) !== -1
MentionsSavedFolder(event, folder) ==
    IndexOf(event.blueocean_job_rest_url, Href(folder)) # -1

\* event.blueocean_job_rest_url.indexOf(this.savedOrgFolder._links.self.href) === 0
TargetsSavedFolder(event, folder) ==
    IndexOf(event.blueocean_job_rest_url, Href(folder)) = 0

\* _onSseEvent that takes every result but SUCCESS for a failure
EventOutcomeElseFailure(event, folder) ==
    IF IndexOf(event.blueocean_job_rest_url, Href(folder)) = 0
       /\ event.jenkins_event = QUEUE_TASK_COMPLETE
    THEN IF event.job_multibranch_indexing_result = "SUCCESS"
         THEN STATUS.STEP_COMPLETE_SUCCESS
         ELSE STATUS.STEP_COMPLETE_EVENT_ERROR
    ELSE ""

\* the status _onSseEvent sets for the event, "" when it sets none
EventOutcome(event, folder) ==
    IF TargetsSavedFolder(event, folder) /\ event.jenkins_event = QUEUE_TASK_COMPLETE
    THEN IF event.job_multibranch_indexing_result = "SUCCESS"
         THEN STATUS.STEP_COMPLETE_SUCCESS
         ELSE IF event.job_multibranch_indexing_result = "FAILURE"
         THEN STATUS.STEP_COMPLETE_EVENT_ERROR
         ELSE ""
    ELSE ""

\* the bus calls the handler registered under id h with the event
_onSseEvent(h, event) ==
    /\ h \in handlers
    /\ LET ran     == [Ran("_onSseEvent") EXCEPT !.id = h, !.event = event]
           outcome == EventOutcome(event, savedOrgFolder)
       IN  IF outcome # ""
           THEN /\ status' = outcome
                /\ Cleanup(ran, timers)
           ELSE /\ last' = ran
                /\ UNCHANGED <<status, _sseSubscribeId, _sseTimeoutId,
                               handlers, timers>>
    /\ UNCHANGED <<organizations, repositories, selectedOrganization,
                   selectedRepository, savedOrgFolder, _repositoryCache,
                   _discoverSelection, _credentialId, steps, pendingSteps,
                   credCalls, tokenCalls, tokensUsed, orgCalls, repoCalls,
                   chains, saveCalls, nSaves, nextHandlerId, nextTimerId,
                   unhandled>>

\* the timer t fires
_onSseTimeout(t) ==
    /\ t \in timers
    /\ status' = STATUS.STEP_COMPLETE_EVENT_TIMEOUT
    /\ Cleanup([Ran("_onSseTimeout") EXCEPT !.id = t], timers \ {t})
    /\ UNCHANGED <<organizations, repositories, selectedOrganization,
                   selectedRepository, savedOrgFolder, _repositoryCache,
                   _discoverSelection, _credentialId, steps, pendingSteps,
                   credCalls, tokenCalls, tokensUsed, orgCalls, repoCalls,
                   chains, saveCalls, nSaves, nextHandlerId, nextTimerId,
                   unhandled>>

----------------------------------------------------------------------------
Next ==
    \/ destroy
    \/ \E cred \in {"null", "github"} : _afterInitialStep(cred)
    \/ findExistingCredentialRejected
    \/ createAccessToken
    \/ _createTokenSuccess("github")
    \/ \E error \in TokenErrors : _createTokenFailure(error)
    \/ _updateOrganizations(Organizations)
    \/ listOrganizationsRejected
    \/ \E o \in Organizations : selectOrganization(o)
    \/ \E d \in BOOLEAN : selectDiscover(d)
    \/ \E r \in {RepoA, RepoB, RepoX} : selectRepository(r)
    \/ \E call \in repoCalls, items \in PageItems, np \in {NULL, UNDEFINED} \cup 1..(MaxPages + 1) :
           _updateRepositories(call, items, np)
    \/ \E call \in repoCalls : listRepositoriesRejected(call)
    \/ saveAutoDiscover
    \/ saveSingleRepo
    \/ \E call \in saveCalls : _saveOrgFolderSuccess(call)
    \/ \E call \in saveCalls : _saveOrgFolderFailure(call)
    \/ \E h \in handlers, event \in SseEvents : _onSseEvent(h, event)
    \/ \E t \in timers : _onSseTimeout(t)

Spec == Init /\ [][Next]_vars

----------------------------------------------------------------------------
(* Properties *)

Armed == _sseSubscribeId # NULL

Disarmed == _sseSubscribeId = NULL /\ _sseTimeoutId = NULL

\* url starts with href
StartsWith(url, href) ==
    /\ Len(href) <= Len(url)
    /\ SubSeq(url, 1, Len(href)) = href

TerminalResults == {"SUCCESS", "FAILURE"}

\* C1: in every reachable state _sseSubscribeId and _sseTimeoutId are both
\* set or both null, and while set the handler is registered with the bus and
\* the timer is running.
C1_SubscriptionAndTimerTogether ==
    /\ (_sseSubscribeId # NULL) <=> (_sseTimeoutId # NULL)
    /\ _sseSubscribeId # NULL =>
           _sseSubscribeId \in handlers /\ _sseTimeoutId \in timers

\* an armed state, right after a successful save
C1_Witness ==
    /\ last.op = "_saveOrgFolderSuccess"
    /\ _sseSubscribeId # NULL
    /\ _sseTimeoutId # NULL

\* C2: a timer that fires sets the timeout status and releases subscription
\* and timer; once timed out and disarmed, no event delivered to the flow
\* manager changes status.
C2_TimeoutIsFinal ==
    [][ /\ last'.op = "_onSseTimeout" =>
              /\ status' = STATUS.STEP_COMPLETE_EVENT_TIMEOUT
              /\ Disarmed'
        /\ ( /\ last'.op = "_onSseEvent"
             /\ status = STATUS.STEP_COMPLETE_EVENT_TIMEOUT
             /\ Disarmed )
           => status' = status ]_vars

\* C3: while armed, a queue-task-complete event for the saved folder with
\* result SUCCESS or FAILURE sets the success or the event-error status and
\* disarms; right after an event has resolved the lifecycle no timer sets the
\* timeout status.
C3_TerminalEventIsFinal ==
    [][ /\ ( /\ last'.op = "_onSseEvent"
             /\ Armed
             /\ StartsWith(last'.event.blueocean_job_rest_url, Href(savedOrgFolder))
             /\ last'.event.jenkins_event = QUEUE_TASK_COMPLETE
             /\ last'.event.job_multibranch_indexing_result \in TerminalResults )
           => /\ status' = IF last'.event.job_multibranch_indexing_result = "SUCCESS"
                           THEN STATUS.STEP_COMPLETE_SUCCESS
                           ELSE STATUS.STEP_COMPLETE_EVENT_ERROR
              /\ Disarmed'
              /\ _sseSubscribeId \notin handlers'
              /\ _sseTimeoutId \notin timers'
        /\ ( /\ last.op = "_onSseEvent"
             /\ last.removed # <<>>
             /\ Disarmed )
           => status' # STATUS.STEP_COMPLETE_EVENT_TIMEOUT ]_vars

\* C4: an event whose url does not start with the saved folder's href leaves
\* status, savedOrgFolder, both ids, the bus's handlers and the timers as
\* they are, whatever its jenkins_event and its result.
C4_OtherTargetIgnored ==
    [][ ( /\ last'.op = "_onSseEvent"
          /\ ~StartsWith(last'.event.blueocean_job_rest_url, Href(savedOrgFolder)) )
        => UNCHANGED <<flowVars, envVars>> ]_vars

\* armed, a FAILURE queue-task-complete event for another target was
\* delivered, and status is still the one the save set
C4_Witness ==
    /\ last.op = "_onSseEvent"
    /\ Armed
    /\ ~StartsWith(last.event.blueocean_job_rest_url, Href(savedOrgFolder))
    /\ last.event.jenkins_event = QUEUE_TASK_COMPLETE
    /\ last.event.job_multibranch_indexing_result = "FAILURE"
    /\ status = STATUS.STEP_COMPLETE_SUCCESS

\* C5: while armed, a queue-task-complete event for the saved folder whose
\* result is neither SUCCESS nor FAILURE changes nothing: status and both ids
\* stay, the handler stays registered and the timer stays running.
C5_OtherResultStaysArmed ==
    [][ ( /\ last'.op = "_onSseEvent"
          /\ Armed
          /\ StartsWith(last'.event.blueocean_job_rest_url, Href(savedOrgFolder))
          /\ last'.event.jenkins_event = QUEUE_TASK_COMPLETE
          /\ last'.event.job_multibranch_indexing_result \notin TerminalResults )
        => /\ UNCHANGED <<flowVars, envVars>>
           /\ _sseSubscribeId' \in handlers'
           /\ _sseTimeoutId' \in timers' ]_vars

\* armed, and the event for the saved folder that came last had no result
C5_Witness ==
    /\ last.op = "_onSseEvent"
    /\ Armed
    /\ StartsWith(last.event.blueocean_job_rest_url, Href(savedOrgFolder))
    /\ last.event.jenkins_event = QUEUE_TASK_COMPLETE
    /\ last.event.job_multibranch_indexing_result = "undefined"
    /\ _sseSubscribeId \in handlers
    /\ _sseTimeoutId \in timers

\* C6: destroy on a disarmed flow manager changes nothing and calls neither
\* removeHandler nor clearTimeout; destroy on an armed one removes the
\* handler and clears the timer in the same step; a second _cleanupListeners
\* right after a first changes nothing more.
C6_DisarmIdempotent ==
    [][ /\ LET once  == _cleanupListeners(_sseSubscribeId, _sseTimeoutId,
                                          handlers, timers)
               twice == _cleanupListeners(once.sub, once.tmo, once.hs, once.ts)
           IN  /\ twice.sub = once.sub /\ twice.tmo = once.tmo
               /\ twice.hs = once.hs /\ twice.ts = once.ts
               /\ twice.removed = <<>> /\ twice.cleared = <<>>
        /\ (last'.op = "destroy" /\ Disarmed) =>
              /\ UNCHANGED <<flowVars, envVars>>
              /\ last'.removed = <<>>
              /\ last'.cleared = <<>>
        /\ (last'.op = "destroy" /\ ~Disarmed) =>
              /\ Disarmed'
              /\ last'.removed = <<_sseSubscribeId>>
              /\ last'.cleared = <<_sseTimeoutId>>
              /\ handlers' = handlers \ {_sseSubscribeId}
              /\ timers' = timers \ {_sseTimeoutId} ]_vars

\* destroy ran on a flow manager that had been armed and disarmed before
C6_Witness ==
    /\ last.op = "destroy"
    /\ last.removed = <<>>
    /\ last.cleared = <<>>
    /\ nextHandlerId > 1
    /\ Disarmed

\* the listRepositories calls in flight for chain c, for organization n
CallsOfChain(calls, c) == {call \in calls : call.chain = c}

CallsOfOrg(calls, n) == {call \in calls : call.org = n}

LastPageSteps == {"GithubConfirmDiscoverStep", "GithubRepositoryStep"}

\* C7: a load has at most one listRepositories call in flight, made after the
\* continuation of the page before it; when the page without a next page has
\* been handled, repositories and the organization's cache entry both equal
\* the concatenation of that load's pages in page order.
C7_PagesConcatenated ==
    /\ \A c \in UsedChains :
           /\ Cardinality(CallsOfChain(repoCalls, c)) <= 1
           /\ CallsOfChain(repoCalls, c) # {} => chains[c].fetches = chains[c].pages + 1
    /\ (last.op = "_updateRepositories" /\ last.nextPage = NULL) =>
           /\ repositories = chains[last.id].got
           /\ chains[last.id].org \in DOMAIN _repositoryCache
           /\ _repositoryCache[chains[last.id].org] = chains[last.id].got

\* C8: when a page with nextPage = null has been handled, the load has made
\* exactly as many listRepositories calls as it received pages (one when the
\* first page ends it), none is in flight, and the current step is the
\* confirm-discover or the repository step; a finished load makes no call.
C8_NullMarkerEndsLoad ==
    /\ (last.op = "_updateRepositories" /\ last.nextPage = NULL) =>
           /\ chains[last.id].done
           /\ chains[last.id].fetches = chains[last.id].pages
           /\ CallsOfChain(repoCalls, last.id) = {}
           /\ steps[Len(steps)] \in LastPageSteps
           /\ status \in {STATUS.STEP_CONFIRM_DISCOVER, STATUS.STEP_CHOOSE_REPOSITORY}
    /\ \A c \in UsedChains :
           chains[c].done =>
               /\ CallsOfChain(repoCalls, c) = {}
               /\ chains[c].fetches = chains[c].pages

\* the first page of a load came with nextPage = null
C8_Witness ==
    /\ last.op = "_updateRepositories"
    /\ last.nextPage = NULL
    /\ chains[last.id].pages = 1
    /\ chains[last.id].fetches = 1
    /\ steps[Len(steps)] \in LastPageSteps

\* C9 as stated: after a page whose next-page marker is null or absent the
\* load is over: no listRepositories call of it is in flight and the current
\* step is the confirm-discover or the repository step.
C9_NullOrAbsentMarkerEndsLoad ==
    (last.op = "_updateRepositories" /\ last.nextPage \in {NULL, UNDEFINED}) =>
        /\ chains[last.id].done
        /\ CallsOfChain(repoCalls, last.id) = {}
        /\ steps[Len(steps)] \in LastPageSteps

\* C9 amended: only a null marker ends the load; after any other marker, an
\* absent one included, the next listRepositories call is in flight, for the
\* page the marker names (undefined for an absent marker).
C9_OnlyNullMarkerEndsLoad ==
    last.op = "_updateRepositories" =>
        /\ chains[last.id].done <=> last.nextPage = NULL
        /\ last.nextPage # NULL =>
               CallsOfChain(repoCalls, last.id) =
                   {[chain |-> last.id, org |-> chains[last.id].org,
                     page |-> last.nextPage]}

\* a page came without a next-page marker and the load goes on
C9_Witness ==
    /\ last.op = "_updateRepositories"
    /\ last.nextPage = UNDEFINED
    /\ ~chains[last.id].done
    /\ \E call \in repoCalls : call.chain = last.id /\ call.page = UNDEFINED

\* the organization's list is fully paginated and cached, nothing in flight
FullyCached(n) ==
    /\ n \in DOMAIN _repositoryCache
    /\ \E c \in UsedChains : chains[c].org = n /\ chains[c].done
    /\ CallsOfOrg(repoCalls, n) = {}

\* C10 as stated: once an organization's list is fully paginated and cached,
\* no step issues a listRepositories call for that organization.
C10_CachedNotRefetched ==
    [][ \A n \in OrgNames :
            FullyCached(n) => CallsOfOrg(repoCalls', n) = {} ]_vars

\* C10 amended: every selectDiscover other than discover = true on an
\* auto-discovering organization empties repositories and issues one
\* listRepositories call for the first page of the selected organization,
\* cached or not, and leaves the cache as it is.
C10_SelectDiscoverAlwaysLoads ==
    [][ ( /\ last'.op = "selectDiscover"
          /\ ~(Org(selectedOrganization).autoDiscover /\ _discoverSelection' = "true") )
        => /\ repositories' = <<>>
           /\ _repositoryCache' = _repositoryCache
           /\ \E call \in repoCalls' \ repoCalls :
                  /\ call.org = selectedOrganization
                  /\ call.page = FIRST_PAGE
                  /\ repoCalls' = repoCalls \cup {call} ]_vars

\* selectDiscover started a load of an organization whose list an earlier
\* load had fully paginated and cached
C10_Witness ==
    /\ last.op = "selectDiscover"
    /\ last.id # 0
    /\ selectedOrganization \in DOMAIN _repositoryCache
    /\ \E c \in UsedChains :
           /\ c # last.id
           /\ chains[c].done
           /\ chains[c].org = selectedOrganization
    /\ \E call \in repoCalls : call.chain = last.id /\ call.org = selectedOrganization

\* the handler that just ran was the continuation of the last page of a load
LastPageHandled == last'.op = "_updateRepositories" /\ last'.nextPage = NULL

Top(stack) == stack[Len(stack)]

\* C11 as stated: after the final page of a load the current step is
\* replaced by the confirm-discover step with status STEP_CONFIRM_DISCOVER
\* when the recorded selection is "choose one" (discover = false), and by the
\* repository picker with status STEP_CHOOSE_REPOSITORY otherwise.
C11_ChooseOneConfirms ==
    [][ LastPageHandled =>
          /\ Len(steps') = Len(steps)
          /\ IF _discoverSelection = "false"
             THEN /\ Top(steps') = "GithubConfirmDiscoverStep"
                  /\ status' = STATUS.STEP_CONFIRM_DISCOVER
             ELSE /\ Top(steps') = "GithubRepositoryStep"
                  /\ status' = STATUS.STEP_CHOOSE_REPOSITORY ]_vars

\* C11 amended: after the final page of a load the current step is replaced
\* (the stack keeps its length and everything below the top); when the
\* recorded selection is "scan every repository" (discover = true) the new
\* step is the confirm-discover step and status is STEP_CONFIRM_DISCOVER,
\* when it is "choose one" the new step is the repository picker and status
\* is STEP_CHOOSE_REPOSITORY.
C11_ScanAllConfirms ==
    [][ LastPageHandled =>
          /\ Len(steps') = Len(steps)
          /\ \A i \in 1..(Len(steps) - 1) : steps'[i] = steps[i]
          /\ _discoverSelection' = _discoverSelection
          /\ IF _discoverSelection = "true"
             THEN /\ Top(steps') = "GithubConfirmDiscoverStep"
                  /\ status' = STATUS.STEP_CONFIRM_DISCOVER
             ELSE /\ Top(steps') = "GithubRepositoryStep"
                  /\ status' = STATUS.STEP_CHOOSE_REPOSITORY ]_vars

\* a load started with "choose one" has ended on the repository picker
C11_Witness ==
    /\ last.op = "_updateRepositories" /\ last.nextPage = NULL
    /\ _discoverSelection = "false"
    /\ Top(steps) = "GithubRepositoryStep"
    /\ status = STATUS.STEP_CHOOSE_REPOSITORY

\* C12: a createAccessToken rejected with an error resolves to
\* {success: false, detail: <the error's response body>} and leaves the step
\* stack, the pending steps, the stored credential id and status as they
\* were, with no organization listing started; a fulfilled createAccessToken
\* stores the credential's id, pushes a loading step, starts one
\* organization listing and resolves to {success: true}.
C12_TokenFailureKeepsStep ==
    [][ /\ last'.op = "_createTokenFailure" =>
              /\ last'.returned.value
              /\ ~last'.returned.success
              /\ last'.returned.detail = last'.given
              /\ last'.given \in { e.responseBody : e \in TokenErrors }
              /\ UNCHANGED <<steps, pendingSteps, _credentialId, status>>
              /\ orgCalls' = orgCalls
        /\ last'.op = "_createTokenSuccess" =>
              /\ last'.returned.value
              /\ last'.returned.success
              /\ _credentialId' = last'.given
              /\ steps' = steps \o <<"GithubLoadingStep">>
              /\ orgCalls' = orgCalls + 1 ]_vars

\* a token creation was rejected while the credentials step was showing
C12_Witness ==
    /\ last.op = "_createTokenFailure"
    /\ last.returned = [value |-> TRUE, success |-> FALSE,
                        detail |-> "bad credentials"]
    /\ Top(steps) = "GithubCredentialsStep"
    /\ _credentialId = "null"
    /\ orgCalls = 0

\* C13 as stated: every asynchronous failure is paired with a handler, so no
\* rejection of findExistingCredential, listOrganizations, listRepositories,
\* createOrgFolder or updateOrgFolder is ever left unhandled.
C13_EveryRejectionHandled == unhandled = {}

\* the names of the repositories of a list that already have a pipeline
RECURSIVE CreatedNames(_)
CreatedNames(repos) ==
    IF repos = <<>>
    THEN <<>>
    ELSE (IF Head(repos).pipelineCreated THEN <<Head(repos).name>> ELSE <<>>)
         \o CreatedNames(Tail(repos))

\* the save call the handler that just ran has issued
IssuedCall(call) ==
    /\ call \notin saveCalls
    /\ saveCalls' = saveCalls \cup {call}
    /\ call.id = last'.id

\* C14: saveSingleRepo persists the names of the pipeline-created
\* repositories of the selected organization's cache entry, in cache order,
\* followed by the selected repository's name as the last element;
\* saveAutoDiscover persists the empty list.
C14_PersistedNameList ==
    [][ /\ (last'.op = "saveSingleRepo" /\ ~last'.threw) =>
              \E call \in saveCalls' :
                  /\ IssuedCall(call)
                  /\ call.repoNames =
                         CreatedNames(_repositoryCache[selectedOrganization])
                         \o <<selectedRepository>>
        /\ last'.op = "saveAutoDiscover" =>
              \E call \in saveCalls' :
                  /\ IssuedCall(call)
                  /\ call.repoNames = <<>> ]_vars

\* cached pipeline-created A and B and the selection X are saved as [A, B, X]
C14_Witness ==
    /\ last.op = "saveSingleRepo"
    /\ selectedRepository = RepoX.name
    /\ \E call \in saveCalls :
          /\ call.id = last.id
          /\ call.repoNames = <<RepoA.name, RepoB.name, RepoX.name>>

SaveEntryPoints == {"saveSingleRepo", "saveAutoDiscover"}

\* C15: each save invocation issues exactly one server call, createOrgFolder
\* when the selected organization has no managed pipeline and updateOrgFolder
\* otherwise; nothing but a save invocation issues such a call (no automatic
\* retry); when the call fails status becomes STEP_COMPLETE_SAVING_ERROR and
\* the failure handler records no saved folder and arms no subscription or
\* timer.
C15_OneCallNoRetry ==
    [][ /\ (last'.op \in SaveEntryPoints /\ ~last'.threw) =>
              \E call \in saveCalls' :
                  /\ IssuedCall(call)
                  /\ call.org = selectedOrganization
                  /\ call.api =
                         IF Org(selectedOrganization).jenkinsOrganizationPipeline
                         THEN "updateOrgFolder" ELSE "createOrgFolder"
        /\ ~(saveCalls' \subseteq saveCalls) => last'.op \in SaveEntryPoints
        /\ last'.op = "_saveOrgFolderFailure" =>
              /\ status' = STATUS.STEP_COMPLETE_SAVING_ERROR
              /\ \E call \in saveCalls :
                    /\ call.id = last'.id
                    /\ saveCalls' = saveCalls \ {call}
              /\ UNCHANGED <<savedOrgFolder, _sseSubscribeId, _sseTimeoutId,
                             handlers, timers, nSaves>> ]_vars

\* the only save has failed: saving error, no folder recorded, nothing armed
C15_Witness ==
    /\ last.op = "_saveOrgFolderFailure"
    /\ status = STATUS.STEP_COMPLETE_SAVING_ERROR
    /\ savedOrgFolder = "null"
    /\ Disarmed
    /\ handlers = {} /\ timers = {}
    /\ saveCalls = {}

\* C16: selectDiscover(true) on an organization that supports auto-discovery
\* pushes the "already discovering" step and sets STEP_ALREADY_DISCOVER,
\* issues no listRepositories call and leaves repositories and the repository
\* cache unchanged; every other selectDiscover pushes a loading step and
\* starts a paginated load (one call for the first page, status
\* PENDING_LOADING_REPOSITORIES).
C16_AlreadyDiscoverSkipsLoad ==
    [][ last'.op = "selectDiscover" =>
          IF Org(selectedOrganization).autoDiscover /\ _discoverSelection' = "true"
          THEN /\ steps' = steps \o <<"GithubAlreadyDiscoverStep">>
               /\ status' = STATUS.STEP_ALREADY_DISCOVER
               /\ UNCHANGED <<repoCalls, repositories, _repositoryCache>>
          ELSE /\ steps' = steps \o <<"GithubLoadingStep">>
               /\ status' = STATUS.PENDING_LOADING_REPOSITORIES
               /\ Cardinality(repoCalls' \ repoCalls) = 1
               /\ repoCalls \subseteq repoCalls'
               /\ \A call \in repoCalls' \ repoCalls :
                      /\ call.org = selectedOrganization
                      /\ call.page = FIRST_PAGE
                      /\ call.chain = last'.id ]_vars

\* selectDiscover(true) on the auto-discovering organization, after an
\* earlier load had filled repositories: no call in flight, the list intact
C16_Witness ==
    /\ last.op = "selectDiscover"
    /\ last.id = 0
    /\ _discoverSelection = "true"
    /\ Org(selectedOrganization).autoDiscover
    /\ status = STATUS.STEP_ALREADY_DISCOVER
    /\ Top(steps) = "GithubAlreadyDiscoverStep"
    /\ repoCalls = {}
    /\ repositories # <<>>

RepoNames == { RepoA.name, RepoB.name, RepoX.name }

\* C17 as stated: in every reachable state exactly one organization is
\* selected and at most one repository is selected.
C17_ExactlyOneOrganization ==
    /\ selectedOrganization \in OrgNames
    /\ selectedRepository \in RepoNames \cup {"null"}

\* C17 amended: at most one organization and at most one repository are
\* selected at any time; no organization is selected at construction, only
\* selectOrganization changes the selection, it selects the organization it
\* is given, and once an organization is selected exactly one stays
\* selected; only selectRepository changes the selected repository.
C17_OneOrganizationOnceSelected ==
    /\ selectedOrganization = "null"
    /\ selectedRepository = "null"
    /\ [][ /\ selectedOrganization' \in OrgNames \cup {"null"}
           /\ selectedRepository' \in RepoNames \cup {"null"}
           /\ IF last'.op = "selectOrganization"
              THEN /\ last'.given \in { o.name : o \in organizations }
                   /\ selectedOrganization' = last'.given
              ELSE selectedOrganization' = selectedOrganization
           /\ IF last'.op = "selectRepository"
              THEN selectedRepository' = last'.given
              ELSE selectedRepository' = selectedRepository ]_vars

\* a second selectOrganization has replaced the selected organization while
\* the repository chosen under the first one is still the selected one
C17_Witness ==
    /\ last.op = "selectOrganization"
    /\ last.given = "beta"
    /\ selectedOrganization = "beta"
    /\ selectedRepository = RepoX.name
    /\ \E c \in UsedChains : chains[c].org = "acme"

\* C18 as stated: whenever saveSingleRepo reads the cache entry of the
\* selected organization, the entry exists and holds the complete list of a
\* finished pagination chain for that organization, no page of that
\* organization being still in flight.
C18_CacheReadAfterChainCompletes ==
    last.op = "saveSingleRepo" =>
        /\ selectedOrganization \in DOMAIN _repositoryCache
        /\ CallsOfOrg(repoCalls, selectedOrganization) = {}
        /\ \E c \in UsedChains :
               /\ chains[c].org = selectedOrganization
               /\ chains[c].done
               /\ chains[c].got = _repositoryCache[selectedOrganization]

\* C19 as stated: at most one event subscription and at most one timer
\* created by the flow manager are outstanding at any time.
C19_AtMostOneSubscriptionAndTimer ==
    /\ Cardinality(handlers) <= 1
    /\ Cardinality(timers) <= 1

\* C20 as stated: once destroy() has run, no event handler is registered and
\* no timer is running, whatever runs next (the completion of a save call
\* that was in flight included).
C20_NothingArmedAfterDestroy ==
    [][ last.op = "destroy" => (handlers' = {} /\ timers' = {}) ]_vars

====
